---- MODULE Spec2Model ----
(***************************************************************************)
(* The SQL SELECT-statement analyzer of src/src/pages/JwtInspector.jsx     *)
(* (normalizeSql .. calculateLayout, lines 397-879).                       *)
(*                                                                         *)
(* JavaScript strings are TLA+ strings; a character is a string of length  *)
(* one, and positions are 1-based (JavaScript's index i is position i+1).  *)
(***************************************************************************)
EXTENDS Integers, Sequences, FiniteSets, TLC

(* ------------------------------ bounds -------------------------------- *)

\* Longest input string of the splitter specification.
MaxLen == 4

(* ------------------------- string primitives -------------------------- *)

\* A TLA+ string literal cannot hold the backtick character (the grave accent,
\* code 96): the model writes it as the tilde, which no input uses otherwise.
Backtick == "~"

At(s, i) == SubSeq(s, i, i)

Max(a, b) == IF a >= b THEN a ELSE b

\* The characters \s matches, among those the inputs use.
IsSpace(c) == c \in {" ", "\t", "\n"}

RECURSIVE SkipSpaces(_, _)
\* First position >= i that holds no whitespace (Len(s)+1 when none).
SkipSpaces(s, i) ==
  IF i <= Len(s) /\ IsSpace(At(s, i)) THEN SkipSpaces(s, i + 1) ELSE i

RECURSIVE SkipSpacesBack(_, _)
\* Last position <= i that holds no whitespace (0 when none).
SkipSpacesBack(s, i) ==
  IF i >= 1 /\ IsSpace(At(s, i)) THEN SkipSpacesBack(s, i - 1) ELSE i

\* String.prototype.trim
Trim(s) == SubSeq(s, SkipSpaces(s, 1), SkipSpacesBack(s, Len(s)))

RECURSIVE JoinWith(_, _)
\* Array.prototype.join
JoinWith(seq, sep) ==
  IF seq = <<>> THEN ""
  ELSE IF Len(seq) = 1 THEN seq[1]
  ELSE seq[1] \o sep \o JoinWith(Tail(seq), sep)

(* --------------------------- splitTopLevel ---------------------------- *)

\* The locals of splitTopLevel before its loop.
SplitInit ==
  [current |-> "", depth |-> 0, inSingleQuote |-> FALSE,
   inDoubleQuote |-> FALSE, inBacktick |-> FALSE, result |-> <<>>]

ToggleQuotesNoEscape(st, char, prev) ==
  IF char = "'" /\ ~st.inDoubleQuote /\ ~st.inBacktick
    THEN [st EXCEPT !.inSingleQuote = ~@]
  ELSE IF char = "\"" /\ ~st.inSingleQuote /\ ~st.inBacktick
    THEN [st EXCEPT !.inDoubleQuote = ~@]
  ELSE IF char = Backtick /\ ~st.inSingleQuote /\ ~st.inDoubleQuote
    THEN [st EXCEPT !.inBacktick = ~@]
  ELSE st

\* Lines 492-503: a quote character not preceded by a backslash toggles its
\* flag unless another kind of quote is open.
ToggleQuotes(st, char, prev) ==
  IF char = "'" /\ prev # "\\" /\ ~st.inDoubleQuote /\ ~st.inBacktick
    THEN [st EXCEPT !.inSingleQuote = ~@]
  ELSE IF char = "\"" /\ prev # "\\" /\ ~st.inSingleQuote /\ ~st.inBacktick
    THEN [st EXCEPT !.inDoubleQuote = ~@]
  ELSE IF char = Backtick /\ prev # "\\" /\ ~st.inSingleQuote /\ ~st.inDoubleQuote
    THEN [st EXCEPT !.inBacktick = ~@]
  ELSE st

InQuote(st) == st.inSingleQuote \/ st.inDoubleQuote \/ st.inBacktick

StepDepthNoClamp(depth, char) ==
  IF char = "(" THEN depth + 1
  ELSE IF char = ")" THEN depth - 1
  ELSE depth

\* Lines 507-508.
StepDepth(depth, char) ==
  IF char = "(" THEN depth + 1
  ELSE IF char = ")" THEN Max(0, depth - 1)
  ELSE depth

\* Lines 512 and 521: a piece is kept, trimmed, unless it is blank.
PushTrimmed(result, current) ==
  IF Trim(current) # "" THEN Append(result, Trim(current)) ELSE result

SplitStepNoContinue(st, char, prev, separator) ==
  LET q == ToggleQuotes(st, char, prev) IN
  IF ~InQuote(q)
    THEN LET d == [q EXCEPT !.depth = StepDepth(q.depth, char)] IN
         IF char = separator /\ d.depth = 0
           THEN [d EXCEPT !.result = PushTrimmed(d.result, d.current),
                          !.current = char]
           ELSE [d EXCEPT !.current = @ \o char]
    ELSE [q EXCEPT !.current = @ \o char]

\* One iteration of the loop of lines 487-519.
SplitStep(st, char, prev, separator) ==
  LET q == ToggleQuotes(st, char, prev) IN
  IF ~InQuote(q)
    THEN LET d == [q EXCEPT !.depth = StepDepth(q.depth, char)] IN
         IF char = separator /\ d.depth = 0
           THEN [d EXCEPT !.result = PushTrimmed(d.result, d.current),
                          !.current = ""]
           ELSE [d EXCEPT !.current = @ \o char]
    ELSE [q EXCEPT !.current = @ \o char]

\* str[i - 1], or "" for the first character (line 489).
PrevChar(s, i) == IF i > 1 THEN At(s, i - 1) ELSE ""

RECURSIVE SplitScan(_, _, _, _, _)
\* The for loop of lines 487-519 over the positions i..j, entered with the
\* locals st: the first half of the positions and, once that is done, the
\* second half.
SplitScan(s, separator, i, j, st) ==
  IF i > j THEN st
  ELSE IF i = j THEN SplitStep(st, At(s, i), PrevChar(s, i), separator)
  ELSE LET half == SplitScan(s, separator, i, (i + j) \div 2, st) IN
       IF half.depth >= 0
         THEN SplitScan(s, separator, (i + j) \div 2 + 1, j, half)
         ELSE half

\* splitTopLevel(str, separator), lines 478-523.
splitTopLevel(s, separator) ==
  LET st == SplitScan(s, separator, 1, Len(s), SplitInit) IN
  PushTrimmed(st.result, st.current)

(* --------------------- characters and matching ----------------------- *)

CharsOf(s) == {At(s, i) : i \in 1..Len(s)}

LowerLetters == "abcdefghijklmnopqrstuvwxyz"

UpperLetters == "ABCDEFGHIJKLMNOPQRSTUVWXYZ"

\* [a-zA-Z_]
IdentStartChars == CharsOf(LowerLetters) \cup CharsOf(UpperLetters) \cup {"_"}

\* \w
WordChars == IdentStartChars \cup CharsOf("0123456789")

IsWord(c) == c \in WordChars

LowerOf ==
  [c \in CharsOf(UpperLetters) |->
     At(LowerLetters, CHOOSE i \in 1..26 : At(UpperLetters, i) = c)]

LowerChar(c) == IF c \in DOMAIN LowerOf THEN LowerOf[c] ELSE c

RECURSIVE ToLowerCase(_)
\* String.prototype.toLowerCase; the i flag of a pattern is modelled by
\* matching its lower-case text against the lower-cased subject.
ToLowerCase(s) ==
  IF s = "" THEN ""
  ELSE IF Len(s) = 1 THEN LowerChar(s)
  ELSE ToLowerCase(SubSeq(s, 1, Len(s) \div 2))
         \o ToLowerCase(SubSeq(s, Len(s) \div 2 + 1, Len(s)))

\* lit occurs in s at position i.
HasAt(s, i, lit) ==
  /\ i >= 1
  /\ i + Len(lit) - 1 <= Len(s)
  /\ SubSeq(s, i, i + Len(lit) - 1) = lit

\* \b between positions i - 1 and i.
WordBoundary(s, i) ==
  (i > 1 /\ i - 1 <= Len(s) /\ IsWord(At(s, i - 1)))
    # (i >= 1 /\ i <= Len(s) /\ IsWord(At(s, i)))

RECURSIVE WordRun(_, _)
\* Number of \w characters from position i on.
WordRun(s, i) ==
  IF i <= Len(s) /\ IsWord(At(s, i)) THEN 1 + WordRun(s, i + 1) ELSE 0

RECURSIVE NonSpaceRun(_, _)
\* Number of [^\s] characters from position i on.
NonSpaceRun(s, i) ==
  IF i <= Len(s) /\ ~IsSpace(At(s, i)) THEN 1 + NonSpaceRun(s, i + 1) ELSE 0

\* s.substring(i - 1): s from position i on.
From(s, i) == SubSeq(s, i, Len(s))

SetMin(S) == CHOOSE x \in S : \A y \in S : x <= y

SetMax(S) == CHOOSE x \in S : \A y \in S : x >= y

\* null and undefined. No string of the analysis holds a line break
\* (normalizeSql turns each into a space), so this one stands for null.
Null == "\nnull"

(* ----------------------------- normalizeSql --------------------------- *)

\* First position >= i holding a line break (Len(s)+1 when none): where .*$
\* stops under the m flag.
LineEnd(s, i) ==
  SetMin({j \in i..Len(s) : At(s, j) = "\n"} \cup {Len(s) + 1})

\* First position >= i where lit occurs (Len(s)+1 when none).
NextAt(s, i, lit) ==
  SetMin({j \in i..Len(s) : HasAt(s, j, lit)} \cup {Len(s) + 1})

RECURSIVE RemoveLineComments(_, _)
\* .replace(/--.*$/gm, ""), line 400: s[i..] without its matches.
RemoveLineComments(s, i) ==
  LET p == NextAt(s, i, "--") IN
  IF p > Len(s) THEN From(s, i)
  ELSE SubSeq(s, i, p - 1) \o RemoveLineComments(s, LineEnd(s, p))

\* Positions >= i where a closing */ starts.
BlockEnds(s, i) == {j \in i..Len(s) : HasAt(s, j, "*/")}

\* Positions >= i where /\*[\s\S]*?\*/ matches.
BlockStarts(s, i) ==
  {j \in i..Len(s) : HasAt(s, j, "/*") /\ BlockEnds(s, j + 2) # {}}

RECURSIVE RemoveBlockComments(_, _)
\* .replace(/\/\*[\s\S]*?\*\//g, ""), line 401: s[i..] without its matches.
RemoveBlockComments(s, i) ==
  IF BlockStarts(s, i) = {} THEN From(s, i)
  ELSE LET p == SetMin(BlockStarts(s, i)) IN
       SubSeq(s, i, p - 1)
         \o RemoveBlockComments(s, SetMin(BlockEnds(s, p + 2)) + 2)

RECURSIVE CollapseSpaces(_, _)
\* .replace(/\s+/g, " "), line 402: s[i..] with every run of whitespace
\* replaced.
CollapseSpaces(s, i) ==
  LET P == {j \in i..Len(s) : IsSpace(At(s, j))} IN
  IF P = {} THEN From(s, i)
  ELSE SubSeq(s, i, SetMin(P) - 1) \o " "
         \o CollapseSpaces(s, SkipSpaces(s, SetMin(P)))

\* normalizeSql(sql), lines 397-404.
normalizeSql(sql) ==
  Trim(CollapseSpaces(RemoveBlockComments(RemoveLineComments(sql, 1), 1), 1))

(* -------------------------- clause extractors ------------------------- *)
(* The extractors run on normalizeSql's output, in which every whitespace   *)
(* run is one space and no line break is left: there \s+ matches exactly    *)
(* one space, \s* at most one, and . every character.                       *)

\* The alternatives that end a FROM clause (line 424), ; included; the
\* end-of-input alternative $ is handled where they are used.
ClauseKeywords ==
  {"where", "group by", "having", "order by", "limit", "union", "except",
   "intersect", ";"}

\* joinTypes, lines 437-448.
joinTypes ==
  <<"inner join", "left outer join", "right outer join", "full outer join",
    "left join", "right join", "full join", "cross join", "natural join",
    "join">>

JoinTypeSet == {joinTypes[n] : n \in 1..Len(joinTypes)}

\* One of the literals of K occurs in low at position i.
AnyAt(low, i, K) == \E kw \in K : HasAt(low, i, kw)

\* Positions k >= e where \s+\bfrom\b matches (line 408).
SelectEnds(s, low, e) ==
  {k \in e..Len(s) :
     /\ IsSpace(At(s, k))
     /\ HasAt(low, k + 1, "from")
     /\ WordBoundary(s, k + 5)}

\* Positions p where \bselect\b\s+ matches and the rest of the pattern can.
SelectStarts(s, low) ==
  {p \in 1..Len(s) :
     /\ HasAt(low, p, "select")
     /\ WordBoundary(s, p)
     /\ p + 6 <= Len(s) /\ IsSpace(At(s, p + 6))
     /\ SelectEnds(s, low, p + 7) # {}}

\* Lines 413-416.
StripDistinct(selectPart) ==
  IF HasAt(ToLowerCase(selectPart), 1, "distinct ")
    THEN Trim(From(selectPart, 10))
    ELSE selectPart

\* extractSelectPart(sql), lines 406-419.
extractSelectPart(sql) ==
  LET low == ToLowerCase(sql)
      P == SelectStarts(sql, low)
  IN IF P = {} THEN ""
     ELSE LET p == SetMin(P)
              k == SetMin(SelectEnds(sql, low, p + 7))
          IN StripDistinct(Trim(SubSeq(sql, p + 7, k - 1)))

\* Positions k >= e where the lookahead (?=\s+(?:where|...|;|$)) holds.
FromEnds(s, low, e) ==
  {k \in e..Len(s) :
     /\ IsSpace(At(s, k))
     /\ (k + 1 > Len(s) \/ AnyAt(low, k + 1, ClauseKeywords))}

\* Positions p where \bfrom\b\s+ matches and the rest of the pattern can.
FromStarts(s, low) ==
  {p \in 1..Len(s) :
     /\ HasAt(low, p, "from")
     /\ WordBoundary(s, p)
     /\ p + 4 <= Len(s) /\ IsSpace(At(s, p + 4))
     /\ FromEnds(s, low, p + 5) # {}}

\* parts.map((p) => p.trim()).filter(Boolean), line 432.
TrimAndDropEmpty(parts) ==
  SelectSeq([n \in 1..Len(parts) |-> Trim(parts[n])], LAMBDA x : x # "")

\* extractFromTables(sql), lines 421-433.
extractFromTables(sql) ==
  LET low == ToLowerCase(sql)
      P == FromStarts(sql, low)
  IN IF P = {} THEN <<>>
     ELSE LET p == SetMin(P)
              k == SetMin(FromEnds(sql, low, p + 5))
          IN TrimAndDropEmpty(splitTopLevel(Trim(SubSeq(sql, p + 5, k - 1)), ","))

(* --------------------------- extractJoinClauses ----------------------- *)

\* The lookahead (?=\s*(?:<join types>|where|...|;|$)) of joinPattern holds
\* at position t (lines 453-455).
JoinBoundaryAt(s, low, t) ==
  LET u == SkipSpaces(s, t) IN
  u > Len(s) \/ AnyAt(low, u, JoinTypeSet \cup ClauseKeywords)

\* Where the optional group (?:on\s+([^]+?)) can end when it starts at t: the
\* captured condition is s[t+3 .. e-1], at least one character.
OnEnds(s, low, t) ==
  IF HasAt(low, t, "on") /\ t + 2 <= Len(s) /\ IsSpace(At(s, t + 2))
    THEN {e \in (t + 4)..(Len(s) + 1) : JoinBoundaryAt(s, low, e)}
    ELSE {}

\* \s*(?:on\s+([^]+?))?(?=...) from position q: the group is tried first, its
\* capture as short as the lookahead allows, then the lookahead alone.
RestOfJoin(s, low, q) ==
  LET t == SkipSpaces(s, q)
      E == OnEnds(s, low, t)
  IN IF E # {}
       THEN [ok |-> TRUE, end |-> SetMin(E), on |-> SubSeq(s, t + 3, SetMin(E) - 1)]
     ELSE IF JoinBoundaryAt(s, low, t)
       THEN [ok |-> TRUE, end |-> t, on |-> Null]
     ELSE [ok |-> FALSE, end |-> 0, on |-> Null]

\* The positions where group 2, [^\s]+(?:\s+(?:as\s+)?\w+)?, can end when it
\* starts at a, in the order the matcher tries them: the whole run of
\* non-blanks followed by "as" and an alias, then by an alias alone (\w+
\* longest first), then the run without alias, then shorter and shorter.
TableEnds(s, low, a) ==
  LET L == NonSpaceRun(s, a)
      b == a + L
      c == SkipSpaces(s, b)
      d == SkipSpaces(s, c + 2)
      W == IF c > b /\ HasAt(low, c, "as") /\ d > c + 2 THEN WordRun(s, d) ELSE 0
      V == IF c > b THEN WordRun(s, c) ELSE 0
  IN [i \in 1..W |-> d + W - i + 1]
       \o [i \in 1..V |-> c + V - i + 1]
       \o [i \in 1..L |-> a + L - i + 1]

\* The join types that match at p with \b on both sides and \s+ after.
TypesAt(s, low, p) ==
  {n \in 1..Len(joinTypes) :
     /\ HasAt(low, p, joinTypes[n])
     /\ WordBoundary(s, p)
     /\ WordBoundary(s, p + Len(joinTypes[n]))
     /\ p + Len(joinTypes[n]) <= Len(s)
     /\ IsSpace(At(s, p + Len(joinTypes[n])))}

NoJoinMatch == [ok |-> FALSE, end |-> 0, type |-> "", table |-> "", on |-> Null, raw |-> ""]

\* joinPattern matched at position p (lines 450-457).
JoinMatchAt(s, low, p) ==
  LET T == TypesAt(s, low, p) IN
  IF T = {} THEN NoJoinMatch
  ELSE LET type == joinTypes[SetMin(T)]
           a == SkipSpaces(s, p + Len(type))
           C == TableEnds(s, low, a)
           good == {i \in 1..Len(C) : RestOfJoin(s, low, C[i]).ok}
       IN IF good = {} THEN NoJoinMatch
          ELSE LET e == C[SetMin(good)]
                   r == RestOfJoin(s, low, e)
               IN [ok |-> TRUE, end |-> r.end,
                   type |-> SubSeq(s, p, p + Len(type) - 1),
                   table |-> SubSeq(s, a, e - 1),
                   on |-> r.on,
                   raw |-> SubSeq(s, p, r.end - 1)]

JoinClauseTypeAsWritten(m) ==
  [type |-> Trim(m.type),
   table |-> Trim(m.table),
   on |-> IF m.on # Null /\ m.on # "" THEN Trim(m.on) ELSE "",
   raw |-> Trim(m.raw)]

\* Lines 463-472: the clause pushed for one match.
JoinClause(m) ==
  [type |-> Trim(ToLowerCase(m.type)),
   table |-> Trim(m.table),
   on |-> IF m.on # Null /\ m.on # "" THEN Trim(m.on) ELSE "",
   raw |-> Trim(m.raw)]

RECURSIVE JoinsFrom(_, _, _)
\* The loop of lines 462-473: joinPattern.exec from lastIndex on, until null.
JoinsFrom(s, low, lastIndex) ==
  LET P == {p \in lastIndex..Len(s) : JoinMatchAt(s, low, p).ok} IN
  IF P = {} THEN <<>>
  ELSE LET m == JoinMatchAt(s, low, SetMin(P)) IN
       <<JoinClause(m)>> \o JoinsFrom(s, low, m.end)

\* extractJoinClauses(sql), lines 435-476.
extractJoinClauses(sql) == JoinsFrom(sql, ToLowerCase(sql), 1)

(* ------------------ parseTableAndAlias, columns, conditions ----------- *)

\* Every character of s[i..] is a \w character.
AllWord(s, i) == \A m \in i..Len(s) : IsWord(At(s, m))

\* s[i..] matches [a-zA-Z_]\w*$
IdentToEnd(s, i) == i <= Len(s) /\ At(s, i) \in IdentStartChars /\ AllWord(s, i + 1)

\* Where the alias of ^(.+?)\s+(?:as\s+)?([a-zA-Z_]\w*)$ starts when group 1
\* ends before the blank at k (0 when the tail does not match).
AliasStart(s, low, k) ==
  LET c == SkipSpaces(s, k)
      d == SkipSpaces(s, c + 2)
  IN IF k < 2 \/ k > Len(s) \/ ~IsSpace(At(s, k)) THEN 0
     ELSE IF HasAt(low, c, "as") /\ d > c + 2 /\ IdentToEnd(s, d) THEN d
     ELSE IF IdentToEnd(s, c) THEN c
     ELSE 0

\* The match of /^(.+?)\s+(?:as\s+)?([a-zA-Z_]\w*)$/i (lines 544 and 583):
\* group 1 is as short as possible.
TrailingAlias(s) ==
  LET low == ToLowerCase(s)
      K == {k \in 2..Len(s) : AliasStart(s, low, k) # 0}
  IN IF K = {} THEN [ok |-> FALSE, head |-> s, alias |-> Null]
     ELSE [ok |-> TRUE,
           head |-> Trim(SubSeq(s, 1, SetMin(K) - 1)),
           alias |-> Trim(From(s, AliasStart(s, low, SetMin(K))))]

\* The match of /^\s*(?:as\s+)?(\w+)/i on the text after a subquery (line 533).
LeadingAlias(s) ==
  LET low == ToLowerCase(s)
      i == SkipSpaces(s, 1)
      d == SkipSpaces(s, i + 2)
  IN IF HasAt(low, i, "as") /\ d > i + 2 /\ WordRun(s, d) > 0
       THEN SubSeq(s, d, d + WordRun(s, d) - 1)
     ELSE IF WordRun(s, i) > 0 THEN SubSeq(s, i, i + WordRun(s, i) - 1)
     ELSE Null

\* /^([a-zA-Z_][\w.]*[a-zA-Z_]\w*)$/, line 545.
IsDottedName(s) ==
  /\ Len(s) >= 2
  /\ At(s, 1) \in IdentStartChars
  /\ \A m \in 1..Len(s) : IsWord(At(s, m)) \/ At(s, m) = "."
  /\ \E j \in 2..Len(s) : At(s, j) \in IdentStartChars /\ AllWord(s, j + 1)

\* parseTableAndAlias(tableExpr), lines 525-570.
parseTableAndAlias(tableExpr) ==
  LET expr == Trim(tableExpr) IN
  IF HasAt(expr, 1, "(") /\ HasAt(expr, Len(expr), ")")
    THEN [name |-> "(" \o Trim(SubSeq(expr, 2, Len(expr) - 1)) \o ")",
          alias |-> LeadingAlias(Trim(From(tableExpr, Len(expr) + 1))),
          isSubquery |-> TRUE]
  ELSE IF TrailingAlias(expr).ok
    THEN [name |-> TrailingAlias(expr).head,
          alias |-> TrailingAlias(expr).alias,
          isSubquery |-> FALSE]
  ELSE IF IsDottedName(expr)
    THEN [name |-> Trim(expr), alias |-> Null, isSubquery |-> FALSE]
  ELSE [name |-> expr, alias |-> Null, isSubquery |-> FALSE]

\* /\w+\s*\(/.test(expression), line 605.
IsFunctionCall(s) ==
  \E i \in 1..Len(s) : IsWord(At(s, i)) /\ HasAt(s, SkipSpaces(s, i + 1), "(")

\* Positions of the dots of s.
Dots(s) == {i \in 1..Len(s) : At(s, i) = "."}

\* /^([a-zA-Z_]\w*)\.([a-zA-Z_*]\w*)$/ matches s, line 593.
IsQualifiedColumn(s) ==
  /\ Cardinality(Dots(s)) = 1
  /\ LET dot == SetMin(Dots(s)) IN
     /\ dot >= 2 /\ dot < Len(s)
     /\ At(s, 1) \in IdentStartChars
     /\ \A m \in 2..(dot - 1) : IsWord(At(s, m))
     /\ At(s, dot + 1) \in IdentStartChars \cup {"*"}
     /\ AllWord(s, dot + 2)

\* The descriptor of one SELECT item, lines 579-614.
ColumnDescriptor(part) ==
  LET trimmed == Trim(part)
      am == TrailingAlias(trimmed)
      expression == IF am.ok THEN am.head ELSE trimmed
      alias == IF am.ok THEN am.alias ELSE Null
  IN IF IsQualifiedColumn(expression)
       THEN [raw |-> trimmed,
             table |-> SubSeq(expression, 1, SetMin(Dots(expression)) - 1),
             column |-> From(expression, SetMin(Dots(expression)) + 1),
             alias |-> alias,
             isFunction |-> FALSE]
       ELSE [raw |-> trimmed,
             table |-> Null,
             column |-> IF IsFunctionCall(expression) THEN Null ELSE expression,
             alias |-> alias,
             isFunction |-> IsFunctionCall(expression)]

\* extractColumnsFromSelect(selectPart), lines 572-615. The descriptor of the
\* first branch has no isFunction key.
extractColumnsFromSelect(selectPart) ==
  IF selectPart = "" \/ selectPart = "*"
    THEN <<[raw |-> "*", table |-> Null, column |-> "*", alias |-> Null]>>
    ELSE LET parts == splitTopLevel(selectPart, ",") IN
         [n \in 1..Len(parts) |-> ColumnDescriptor(parts[n])]

\* Where \s+(?:and|or)\s+ ends when it starts at i (0 when it does not match).
AndOrEnd(s, low, i) ==
  LET c == SkipSpaces(s, i)
      w == IF HasAt(low, c, "and") THEN 3 ELSE IF HasAt(low, c, "or") THEN 2 ELSE 0
      d == SkipSpaces(s, c + w)
  IN IF c > i /\ w > 0 /\ d > c + w THEN d ELSE 0

RECURSIVE SplitAndOr(_, _, _)
\* onClause.split(/\s+(?:and|or)\s+/i), line 622: the parts of s[i..].
SplitAndOr(s, low, i) ==
  LET P == {j \in i..Len(s) : AndOrEnd(s, low, j) > 0} IN
  IF P = {} THEN <<From(s, i)>>
  ELSE <<SubSeq(s, i, SetMin(P) - 1)>>
         \o SplitAndOr(s, low, AndOrEnd(s, low, SetMin(P)))

\* The operator alternatives of line 629, in the order they are tried.
ComparisonOperators ==
  <<"=", "<>", "!=", "<=", ">=", "<", ">", "like", "in", "not in">>

RECURSIVE OperandRun(_, _)
\* Number of [^<>=!] characters from position i on.
OperandRun(s, i) ==
  IF i <= Len(s) /\ At(s, i) \notin {"<", ">", "=", "!"}
    THEN 1 + OperandRun(s, i + 1)
    ELSE 0

\* The operators that match right after s[1..m] and leave (.+) a character.
OperatorsAfter(s, low, m) ==
  {n \in 1..Len(ComparisonOperators) :
     /\ HasAt(low, m + 1, ComparisonOperators[n])
     /\ m + Len(ComparisonOperators[n]) < Len(s)}

\* One condition of parseOnConditions, lines 625-651:
\* /^([^<>=!]+)(=|<>|!=|<=|>=|<|>|like|in|not\s+in)\s*(.+)$/i, group 1 as
\* long as possible.
Condition(part) ==
  LET trimmed == Trim(part)
      low == ToLowerCase(trimmed)
      M == {m \in 1..OperandRun(trimmed, 1) : OperatorsAfter(trimmed, low, m) # {}}
  IN IF M = {}
       THEN [raw |-> trimmed, left |-> Null, operator |-> Null, right |-> Null]
       ELSE LET m == SetMax(M)
                op == ComparisonOperators[SetMin(OperatorsAfter(trimmed, low, m))]
            IN [raw |-> trimmed,
                left |-> Trim(SubSeq(trimmed, 1, m)),
                operator |-> Trim(SubSeq(trimmed, m + 1, m + Len(op))),
                right |-> Trim(From(trimmed, m + Len(op) + 1))]

\* parseOnConditions(onClause), lines 617-655.
parseOnConditions(onClause) ==
  IF onClause = "" THEN <<>>
  ELSE LET parts == SplitAndOr(onClause, ToLowerCase(onClause), 1) IN
       [n \in 1..Len(parts) |-> Condition(parts[n])]

RECURSIVE RemoveQuotes(_)
\* identifier.replace(/["`']/g, "") with ~ for the backtick.
RemoveQuotes(s) ==
  IF s = "" THEN ""
  ELSE IF Len(s) = 1 THEN (IF s \in {"\"", Backtick, "'"} THEN "" ELSE s)
  ELSE RemoveQuotes(SubSeq(s, 1, Len(s) \div 2))
         \o RemoveQuotes(SubSeq(s, Len(s) \div 2 + 1, Len(s)))

\* normalizeIdentifier(identifier), lines 657-661.
normalizeIdentifier(identifier) ==
  IF identifier = Null \/ identifier = "" THEN identifier
  ELSE ToLowerCase(RemoveQuotes(identifier))

\* name.split(".").pop()
LastSegment(name) ==
  IF Dots(name) = {} THEN name ELSE From(name, SetMax(Dots(name)) + 1)

\* Lines 682-684 and 699-701: parsed.alias || parsed.name.split(".").pop(),
\* normalized.
TableIdOf(parsed) ==
  normalizeIdentifier(IF parsed.alias # Null /\ parsed.alias # ""
                        THEN parsed.alias
                        ELSE LastSegment(parsed.name))

\* parseTableRef(ref), lines 792-800.
parseTableRef(ref) ==
  IF Dots(ref) # {}
    THEN [table |-> normalizeIdentifier(SubSeq(ref, 1, SetMin(Dots(ref)) - 1)),
          column |-> From(ref, SetMin(Dots(ref)) + 1)]
    ELSE [table |-> Null, column |-> ref]

(* ------------------------- the tables object ------------------------- *)
(* tables (line 678) is a plain object used as a map from table id to      *)
(* table. Its own properties are kept in insertion order; a key it does not *)
(* own is looked up on its prototype chain, and the key __proto__ is the    *)
(* accessor of Object.prototype: reading it gives the prototype, assigning  *)
(* an object to it replaces the prototype instead of adding a property.     *)

\* const tables = {}: no own property, prototype Object.prototype (proto
\* holds the object a later assignment to __proto__ installed, if any).
EmptyObject == [own |-> <<>>, proto |-> <<>>]

\* The data and method properties of Object.prototype.
ObjectPrototypeKeys ==
  {"constructor", "hasOwnProperty", "isPrototypeOf", "propertyIsEnumerable",
   "toLocaleString", "toString", "valueOf", "__defineGetter__",
   "__defineSetter__", "__lookupGetter__", "__lookupSetter__"}

OwnIndex(t, key) == {n \in 1..Len(t.own) : t.own[n].id = key}

\* Whether property key of the table record r is truthy.
FieldTruthy(r, key) ==
  IF key = "isSubquery" THEN r.isSubquery
  ELSE IF key = "isOrphan" \/ key = "isVirtual" \/ key = "columns" THEN TRUE
  ELSE r[key] # Null /\ r[key] # ""

\* tables[key]: an own table ("own", at its index), the installed prototype
\* itself ("prototable"), another JavaScript value ("value", with its
\* truthiness) or undefined.
Lookup(t, key) ==
  IF key = "__proto__"
    THEN [kind |-> IF t.proto # <<>> THEN "prototable" ELSE "value", at |-> 0, truthy |-> TRUE]
  ELSE IF OwnIndex(t, key) # {}
    THEN [kind |-> "own", at |-> SetMin(OwnIndex(t, key)), truthy |-> TRUE]
  ELSE IF t.proto # <<>> /\ key \in DOMAIN t.proto[1]
    THEN [kind |-> "value", at |-> 0, truthy |-> FieldTruthy(t.proto[1], key)]
  ELSE IF key \in ObjectPrototypeKeys
    THEN [kind |-> "value", at |-> 0, truthy |-> TRUE]
  ELSE [kind |-> "undefined", at |-> 0, truthy |-> FALSE]

\* Whether tables[key] is truthy.
Has(t, key) == Lookup(t, key).truthy

PutAppend(t, key, table) == [t EXCEPT !.own = Append(@, table)]

\* tables[key] = table
Put(t, key, table) ==
  IF key = "__proto__" THEN [t EXCEPT !.proto = <<table>>]
  ELSE IF OwnIndex(t, key) # {}
    THEN [t EXCEPT !.own[SetMin(OwnIndex(t, key))] = table]
  ELSE [t EXCEPT !.own = Append(@, table)]

Digits == "0123456789"

DigitOf(c) == CHOOSE d \in 0..9 : At(Digits, d + 1) = c

\* a < b as numbers, for two strings of digits without leading zero.
IndexLess(a, b) ==
  \/ Len(a) < Len(b)
  \/ /\ Len(a) = Len(b)
     /\ \E i \in 1..Len(a) :
          /\ SubSeq(a, 1, i - 1) = SubSeq(b, 1, i - 1)
          /\ DigitOf(At(a, i)) < DigitOf(At(b, i))

\* The largest array index, 2^32 - 2.
MaxArrayIndex == "4294967294"

\* The key is an array index (a canonical integer up to 2^32 - 2): such keys
\* are enumerated first, in ascending order.
IsArrayIndex(key) ==
  /\ key # ""
  /\ \A i \in 1..Len(key) : At(key, i) \in CharsOf(Digits)
  /\ (Len(key) > 1 => At(key, 1) # "0")
  /\ ~IndexLess(MaxArrayIndex, key)

\* Object.values(tables)
ObjectValues(t) ==
  SortSeq(SelectSeq(t.own, LAMBDA r : IsArrayIndex(r.id)),
          LAMBDA a, b : IndexLess(a.id, b.id))
    \o SelectSeq(t.own, LAMBDA r : ~IsArrayIndex(r.id))

\* The predicate of the find calls of lines 726-730 and 813-817.
MatchesAliasOrName(r, tableId) ==
  \/ (r.alias # Null /\ normalizeIdentifier(r.alias) = tableId)
  \/ normalizeIdentifier(LastSegment(r.name)) = tableId

\* Object.values(tables).find(...): the id of the first match, Null if none.
FindByAliasOrName(t, tableId) ==
  LET v == ObjectValues(t)
      M == {n \in 1..Len(v) : MatchesAliasOrName(v[n], tableId)}
  IN IF M = {} THEN Null ELSE v[SetMin(M)].id

(* ------------------------- buildGraphFromSql -------------------------- *)

\* Lines 686-693 and 704-711.
TableRecord(tableId, parsed, rawText) ==
  [id |-> tableId, name |-> parsed.name, alias |-> parsed.alias,
   isSubquery |-> parsed.isSubquery, columns |-> <<>>, raw |-> rawText]

\* One iteration of fromParts.forEach, lines 680-694.
RegisterFromPart(t, part) ==
  LET parsed == parseTableAndAlias(part) IN
  Put(t, TableIdOf(parsed), TableRecord(TableIdOf(parsed), parsed, part))

\* One iteration of joinClauses.forEach, lines 697-713.
RegisterJoinTable(t, join) ==
  LET parsed == parseTableAndAlias(join.table) IN
  IF ~Has(t, TableIdOf(parsed))
    THEN Put(t, TableIdOf(parsed), TableRecord(TableIdOf(parsed), parsed, join.table))
    ELSE t

\* The column object pushed at lines 734-739, 748-753 and 773-778.
ColumnEntry(col) ==
  IF "isFunction" \in DOMAIN col
    THEN [name |-> col.column, alias |-> col.alias, expression |-> col.raw,
          isFunction |-> col.isFunction]
    ELSE [name |-> col.column, alias |-> col.alias, expression |-> col.raw]

\* Lines 742-757.
OrphanTable(tableId, col) ==
  [id |-> tableId, name |-> tableId, alias |-> Null, isSubquery |-> FALSE,
   columns |-> <<ColumnEntry(col)>>, raw |-> tableId, isOrphan |-> TRUE]

\* Lines 762-770.
VirtualTable ==
  [id |-> "__unspecified__", name |-> "Unspecified", alias |-> Null,
   isSubquery |-> FALSE, columns |-> <<>>, raw |-> Null, isVirtual |-> TRUE]

\* The table a qualified column goes to (lines 723-731): tables[tableId] if
\* truthy, else the first table found by alias or name.
ColumnTarget(t, tableId) ==
  IF Has(t, tableId) THEN Lookup(t, tableId)
  ELSE IF FindByAliasOrName(t, tableId) # Null
    THEN Lookup(t, FindByAliasOrName(t, tableId))
  ELSE Lookup(t, tableId)

\* targetTable.columns.push(...) raises a TypeError: the target is a truthy
\* value that is no table and so has no columns array.
PushThrows(t, col) ==
  /\ col.table # Null /\ col.table # ""
  /\ ColumnTarget(t, normalizeIdentifier(col.table)).kind = "value"
  /\ ColumnTarget(t, normalizeIdentifier(col.table)).truthy

\* x.columns.push(entry) on the own table at index n.
PushOwn(t, n, entry) == [t EXCEPT !.own[n].columns = Append(@, entry)]

\* One iteration of columns.forEach that does not throw, lines 718-780.
AttributeColumnTo(t, col) ==
  IF col.table # Null /\ col.table # ""
    THEN LET tableId == normalizeIdentifier(col.table)
             target == ColumnTarget(t, tableId)
         IN IF target.kind = "own" THEN PushOwn(t, target.at, ColumnEntry(col))
            ELSE IF target.kind = "prototable"
              THEN [t EXCEPT !.proto[1].columns = Append(@, ColumnEntry(col))]
            ELSE Put(t, tableId, OrphanTable(tableId, col))
    ELSE LET u == IF Has(t, "__unspecified__") THEN t
                  ELSE Put(t, "__unspecified__", VirtualTable)
         IN PushOwn(u, SetMin(OwnIndex(u, "__unspecified__")), ColumnEntry(col))

\* findTableId(ref), lines 806-820.
FindTableId(t, ref) ==
  IF ref.table = Null \/ ref.table = "" THEN Null
  ELSE IF Has(t, ref.table) THEN ref.table
  ELSE FindByAliasOrName(t, ref.table)

EmitsEdgeAlways(sourceId, targetId) ==
  sourceId # Null /\ targetId # Null

\* The test of line 825.
EmitsEdge(sourceId, targetId) ==
  sourceId # Null /\ targetId # Null /\ sourceId # targetId

EdgesOfConditionNumberedByJoin(t, join, index, condition, condIndex) ==
  IF condition.left = Null \/ condition.left = ""
       \/ condition.right = Null \/ condition.right = ""
    THEN <<>>
  ELSE LET leftRef == parseTableRef(condition.left)
           rightRef == parseTableRef(condition.right)
           sourceId == FindTableId(t, leftRef)
           targetId == FindTableId(t, rightRef)
       IN IF EmitsEdge(sourceId, targetId)
            THEN <<[id |-> "edge_" \o ToString(index) \o "_0",
                    source |-> sourceId,
                    target |-> targetId,
                    joinType |-> join.type,
                    condition |-> condition.raw,
                    sourceColumn |-> leftRef.column,
                    targetColumn |-> rightRef.column,
                    operator |-> condition.operator]>>
            ELSE <<>>

\* The edges one condition contributes (none or one), lines 789-836.
EdgesOfCondition(t, join, index, condition, condIndex) ==
  IF condition.left = Null \/ condition.left = ""
       \/ condition.right = Null \/ condition.right = ""
    THEN <<>>
  ELSE LET leftRef == parseTableRef(condition.left)
           rightRef == parseTableRef(condition.right)
           sourceId == FindTableId(t, leftRef)
           targetId == FindTableId(t, rightRef)
       IN IF EmitsEdge(sourceId, targetId)
            THEN <<[id |-> "edge_" \o ToString(index) \o "_" \o ToString(condIndex),
                    source |-> sourceId,
                    target |-> targetId,
                    joinType |-> join.type,
                    condition |-> condition.raw,
                    sourceColumn |-> leftRef.column,
                    targetColumn |-> rightRef.column,
                    operator |-> condition.operator]>>
            ELSE <<>>

RECURSIVE EdgesOfConditions(_, _, _, _, _)
EdgesOfConditions(t, join, index, conditions, n) ==
  IF n > Len(conditions) THEN <<>>
  ELSE EdgesOfCondition(t, join, index, conditions[n], n - 1)
         \o EdgesOfConditions(t, join, index, conditions, n + 1)

\* The edges one iteration of joinClauses.forEach pushes, lines 785-838.
EdgesOfJoin(t, join, index) ==
  EdgesOfConditions(t, join, index, parseOnConditions(join.on), 1)

\* V8's message for reading push of undefined.
TypeErrorMessage == "Cannot read properties of undefined (reading 'push')"

\* The object returned at line 667.
EmptyQueryResult ==
  [tables |-> <<>>, edges |-> <<>>, errors |-> <<"Empty SQL query">>, raw |-> <<>>]

CaughtResultKeepingTables(t, errs, message) ==
  [tables |-> ObjectValues(t), edges |-> <<>>, errors |-> errs, raw |-> <<>>]

\* The object returned by the catch block, lines 852-853.
CaughtResult(t, errs, message) ==
  [tables |-> <<>>, edges |-> <<>>,
   errors |-> Append(errs, "Parse error: " \o message), raw |-> <<>>]

GraphResultNotingMissingFrom(t, edgs, errs, sel, frm, jns, cols) ==
  [tables |-> ObjectValues(t), edges |-> edgs,
   errors |-> IF frm = <<>> THEN Append(errs, "No FROM clause") ELSE errs,
   raw |-> [select |-> sel, from |-> frm, joins |-> jns, columns |-> cols]]

\* The object returned at lines 840-850.
GraphResult(t, edgs, errs, sel, frm, jns, cols) ==
  [tables |-> ObjectValues(t), edges |-> edgs, errors |-> errs,
   raw |-> [select |-> sel, from |-> frm, joins |-> jns, columns |-> cols]]

(* --------------------------- calculateLayout -------------------------- *)

centerX == 430

centerY == 230

\* Line 866: Math.max(150, nodeCount * 40).
baseRadius(nodeCount) == Max(150, nodeCount * 40)

\* A coordinate that is the number n (line 870).
Fixed(n) == [number |-> n]

\* Lines 873-875, kept exact: the number
\*   center + radius * fn(2 * PI * index / nodeCount - PI / 2)
\* with index counted from 0 as the callback of map counts it.
OnCircle(center, radius, fn, index, nodeCount) ==
  [center |-> center, radius |-> radius, fn |-> fn,
   index |-> index, nodeCount |-> nodeCount]

\* The object literal { ...table, x, y } of lines 870 and 877: the own fields
\* of table, then x and y, which replace fields of the same name.
Positioned(table, x, y) ==
  [f \in DOMAIN table \cup {"x", "y"} |->
     IF f = "x" THEN x ELSE IF f = "y" THEN y ELSE table[f]]

\* The callback of tables.map, lines 868-878; position is index + 1.
PositionTable(table, position, nodeCount) ==
  IF nodeCount = 1
    THEN Positioned(table, Fixed(centerX), Fixed(centerY))
    ELSE Positioned(table,
           OnCircle(centerX, baseRadius(nodeCount), "cos", position - 1, nodeCount),
           OnCircle(centerY, baseRadius(nodeCount), "sin", position - 1, nodeCount))

\* Lines 859-879: the returned array.
calculateLayout(tbls, edgs) ==
  IF Len(tbls) = 0 THEN <<>>
  ELSE [position \in 1..Len(tbls) |-> PositionTable(tbls[position], position, Len(tbls))]

TablesAfterLayoutInPlace(tbls, edgs) == calculateLayout(tbls, edgs)

\* Lines 859-879: the array passed as tables, as the call leaves it. The
\* callback reads table and writes to the new object only, and map builds a
\* new array.
TablesAfterLayout(tbls, edgs) == tbls

(* ------------------- the splitter as a state machine ------------------ *)

VARIABLES
  str,        \* splitTopLevel's argument str
  separator,  \* splitTopLevel's argument separator
  idx,        \* the loop variable i, as a position (i + 1)
  scan,       \* current, depth, the three quote flags and result
  pieces,     \* the returned array, once returned
  spc         \* "scan" inside the loop, "done" after the return

splitVars == <<str, separator, idx, scan, pieces, spc>>

VARIABLES
  sql,          \* buildGraphFromSql's argument
  pc,           \* the position inside buildGraphFromSql
  normalized,   \* line 664
  selectPart,   \* line 673
  fromParts,    \* line 674
  joinClauses,  \* line 675
  tables,       \* line 678
  columns,      \* line 716
  edges,        \* line 783
  errors,       \* line 670
  cursor,       \* the position of the running forEach (index + 1)
  exception,    \* the message of the error the catch block binds, if any
  result,       \* the returned object, once returned
  memo          \* the caller's record of what each input returned first

graphVars == <<sql, pc, normalized, selectPart, fromParts, joinClauses, tables,
               columns, edges, errors, cursor, exception, result, memo>>

VARIABLES
  layoutCalls   \* the calls of calculateLayout made so far, in order

layoutVars == <<layoutCalls>>

vars == <<splitVars, graphVars, layoutVars>>

\* No call of buildGraphFromSql is in progress.
NoResult == [tables |-> <<>>, edges |-> <<>>, errors |-> <<>>, raw |-> <<>>]

GraphIdle ==
  /\ sql = "" /\ pc = "off" /\ normalized = "" /\ selectPart = ""
  /\ fromParts = <<>> /\ joinClauses = <<>> /\ tables = EmptyObject
  /\ columns = <<>> /\ edges = <<>> /\ errors = <<>> /\ cursor = 1
  /\ exception = <<>> /\ result = NoResult /\ memo = <<>>

\* calculateLayout has not been called.
LayoutIdle == layoutCalls = <<>>

\* No call of splitTopLevel is being followed step by step.
SplitIdle ==
  /\ str = "" /\ separator = "," /\ idx = 1 /\ scan = SplitInit
  /\ pieces = <<>> /\ spc = "off"

\* The characters the splitter's inputs are made of.
Alphabet == {"a", " ", ",", "(", ")", "'", "\"", Backtick, "\\"}

Separators == {","}

RECURSIVE Concat(_)
Concat(chars) == IF chars = <<>> THEN "" ELSE Head(chars) \o Concat(Tail(chars))

SplitInputs == UNION {{Concat(t) : t \in [1..n -> Alphabet]} : n \in 0..MaxLen}

InitSplit ==
  /\ str \in SplitInputs
  /\ separator \in Separators
  /\ idx = 1
  /\ scan = SplitInit
  /\ pieces = <<>>
  /\ spc = "scan"
  /\ GraphIdle
  /\ LayoutIdle

\* One iteration of the for loop (lines 487-519).
ScanChar ==
  /\ spc = "scan"
  /\ idx <= Len(str)
  /\ scan' = SplitStep(scan, At(str, idx), PrevChar(str, idx), separator)
  /\ idx' = idx + 1
  /\ UNCHANGED <<str, separator, pieces, spc, graphVars, layoutVars>>

\* Lines 521-522: the loop is over; the last piece is pushed and the array returned.
SplitReturn ==
  /\ spc = "scan"
  /\ idx > Len(str)
  /\ pieces' = PushTrimmed(scan.result, scan.current)
  /\ spc' = "done"
  /\ UNCHANGED <<str, separator, idx, scan, graphVars, layoutVars>>

NextSplit == ScanChar \/ SplitReturn

SpecSplit == InitSplit /\ [][NextSplit]_vars

(* --------------- buildGraphFromSql as a state machine ---------------- *)

\* The SELECT lists, FROM lists, JOIN chains and endings the analysed
\* queries are assembled from.
SelectLists ==
  {"*", "u.name, o.total", "x.y", "count(*) AS n, name", "constructor.c",
   "__proto__.c AS p", "U.id, users.id"}

FromLists ==
  {"users u", "users u, orders o", "users u, orders u", "__proto__",
   "a, 12, 3", "(SELECT id FROM t) m", "\"Users\" AS U"}

JoinChains ==
  {"",
   " JOIN orders o ON u.id = o.user_id",
   " LEFT JOIN b ON a.id = b.a_id AND u.id = users.id",
   " JOIN b ON constructor.id = b.id",
   " INNER JOIN orders AS U ON U.uid = u.id OR o.a <> x.b",
   " JOIN o LEFT OUTER JOIN users ON id = o.k AND __proto__.a = o.a"}

Endings == {"", ";", " WHERE 1=1;"}

AssembledQueries ==
  {"SELECT " \o s \o " FROM " \o f \o j \o e :
     s \in SelectLists, f \in FromLists, j \in JoinChains, e \in Endings}

\* The query the component starts with, lines 1037-1053.
DefaultQuery ==
  "SELECT \n" \o
  "    u.id,\n" \o
  "    u.name,\n" \o
  "    u.email,\n" \o
  "    o.id as order_id,\n" \o
  "    o.total,\n" \o
  "    o.created_at,\n" \o
  "    p.sku,\n" \o
  "    p.name as product_name,\n" \o
  "    COUNT(*) as item_count\n" \o
  "FROM users u\n" \o
  "INNER JOIN orders o ON u.id = o.user_id\n" \o
  "LEFT JOIN order_items oi ON o.id = oi.order_id  \n" \o
  "LEFT JOIN products p ON oi.product_id = p.id\n" \o
  "WHERE o.total > 100\n" \o
  "    AND u.active = 1\n" \o
  "GROUP BY u.id, u.name, u.email, o.id, o.total, o.created_at, p.sku, p.name;"

\* Blank and comment-only inputs, malformed inputs and the scenarios the
\* analyser is documented with.
OtherQueries ==
  {"", " ", "\n\t ", "-- note", "/* note */", " /* a */ -- b\n", "/* -- */",
   "-- a\n/* b\n c */\n", "SELECT FROM", "select", "x",
   "SELECT u.name, o.total FROM users u JOIN orders o ON u.id = o.user_id;",
   "SELECT u.name, o.total\nFROM users u\nJOIN orders o ON u.id = o.user_id;",
   "SELECT * FROM a;",
   "SELECT x.y FROM a LEFT JOIN b ON a.id = b.a_id WHERE 1=1;",
   "SELECT m.id FROM (SELECT id FROM t) m;",
   "SELECT * FROM (SELECT id FROM t) AS m WHERE 1=1",
   "SELECT * FROM (SELECT id FROM t) WHERE 1=1",
   "SELECT a.x FROM a JOIN b ON a.id = b.id AND b.x = 1 AND a.k = b.k LEFT JOIN c ON b.id = c.id WHERE 1=1",
   "SELECT __unspecified__.a, b FROM t WHERE 1=1",
   "SELECT orders.id FROM users u, k JOIN orders AS U ON U.id = k.id WHERE 1=1",
   DefaultQuery,
   "SELECT a, count(*) FROM __unspecified__ WHERE 1=1",
   "SELECT * FROM a JOIN b LEFT JOIN c ON b.id = c.id",
   "SELECT * FROM a LEFT JOIN b x NATURAL JOIN c CROSS JOIN d WHERE 1=1",
   "select distinct a.x -- c\nfrom t a /* d */ where a.x = 1"}

\* What can follow the FROM clause: the ten boundaries of line 424.
FromBoundaries ==
  {" WHERE x = 1", " GROUP BY x", " HAVING x > 1", " ORDER BY x", " LIMIT 5",
   " UNION SELECT 1", " EXCEPT SELECT 1", " INTERSECT SELECT 1", ";", ""}

BoundaryQueries == {"SELECT * FROM t1 a1, t2 a2" \o b : b \in FromBoundaries}

Queries == AssembledQueries \cup OtherQueries \cup BoundaryQueries

\* The inputs of the callers that call again and again.
CallQueries ==
  {"", "SELECT x.y FROM a LEFT JOIN b ON a.id = b.a_id WHERE 1=1;",
   "SELECT constructor.c FROM users u WHERE 1=1;",
   "SELECT u.name FROM users u, orders u JOIN b ON constructor.id = b.id"}

NewTableMapShared(old) == old

\* const tables = {} (line 678): a fresh object, whatever an earlier call
\* left behind.
NewTableMap(old) == EmptyObject

Init ==
  /\ sql \in Queries
  /\ pc = "start"
  /\ normalized = "" /\ selectPart = "" /\ fromParts = <<>> /\ joinClauses = <<>>
  /\ tables = EmptyObject /\ columns = <<>> /\ edges = <<>> /\ errors = <<>>
  /\ cursor = 1 /\ exception = <<>> /\ result = NoResult /\ memo = <<>>
  /\ SplitIdle
  /\ LayoutIdle

\* Line 664.
Call ==
  /\ pc = "start"
  /\ normalized' = normalizeSql(sql)
  /\ exception' = <<>>
  /\ pc' = "normalized"
  /\ UNCHANGED <<sql, selectPart, fromParts, joinClauses, tables, columns,
                 edges, errors, cursor, result, memo, splitVars, layoutVars>>

\* Lines 666-668.
EmptyQuery ==
  /\ pc = "normalized"
  /\ normalized = ""
  /\ result' = EmptyQueryResult
  /\ pc' = "done"
  /\ UNCHANGED <<sql, normalized, selectPart, fromParts, joinClauses, tables,
                 columns, edges, errors, cursor, exception, memo, splitVars, layoutVars>>

\* Lines 670-678.
Extract ==
  /\ pc = "normalized"
  /\ normalized # ""
  /\ errors' = <<>>
  /\ selectPart' = extractSelectPart(normalized)
  /\ fromParts' = extractFromTables(normalized)
  /\ joinClauses' = extractJoinClauses(normalized)
  /\ tables' = NewTableMap(tables)
  /\ cursor' = 1
  /\ pc' = "from"
  /\ UNCHANGED <<sql, normalized, columns, edges, exception, result, memo, splitVars, layoutVars>>

\* One iteration of lines 680-694.
RegisterFrom ==
  /\ pc = "from"
  /\ cursor <= Len(fromParts)
  /\ tables' = RegisterFromPart(tables, fromParts[cursor])
  /\ cursor' = cursor + 1
  /\ UNCHANGED <<sql, pc, normalized, selectPart, fromParts, joinClauses,
                 columns, edges, errors, exception, result, memo, splitVars, layoutVars>>

FromDone ==
  /\ pc = "from"
  /\ cursor > Len(fromParts)
  /\ cursor' = 1
  /\ pc' = "join"
  /\ UNCHANGED <<sql, normalized, selectPart, fromParts, joinClauses, tables,
                 columns, edges, errors, exception, result, memo, splitVars, layoutVars>>

\* One iteration of lines 697-713.
RegisterJoin ==
  /\ pc = "join"
  /\ cursor <= Len(joinClauses)
  /\ tables' = RegisterJoinTable(tables, joinClauses[cursor])
  /\ cursor' = cursor + 1
  /\ UNCHANGED <<sql, pc, normalized, selectPart, fromParts, joinClauses,
                 columns, edges, errors, exception, result, memo, splitVars, layoutVars>>

\* Line 716.
JoinsDone ==
  /\ pc = "join"
  /\ cursor > Len(joinClauses)
  /\ columns' = extractColumnsFromSelect(selectPart)
  /\ cursor' = 1
  /\ pc' = "columns"
  /\ UNCHANGED <<sql, normalized, selectPart, fromParts, joinClauses, tables,
                 edges, errors, exception, result, memo, splitVars, layoutVars>>

\* One iteration of lines 718-780 that runs to its end.
AttributeColumn ==
  /\ pc = "columns"
  /\ cursor <= Len(columns)
  /\ ~PushThrows(tables, columns[cursor])
  /\ tables' = AttributeColumnTo(tables, columns[cursor])
  /\ cursor' = cursor + 1
  /\ UNCHANGED <<sql, pc, normalized, selectPart, fromParts, joinClauses,
                 columns, edges, errors, exception, result, memo, splitVars, layoutVars>>

\* Line 734 raising a TypeError, which leaves the try block.
ThrowTypeError ==
  /\ pc = "columns"
  /\ cursor <= Len(columns)
  /\ PushThrows(tables, columns[cursor])
  /\ exception' = <<TypeErrorMessage>>
  /\ pc' = "catch"
  /\ UNCHANGED <<sql, normalized, selectPart, fromParts, joinClauses, tables,
                 columns, edges, errors, cursor, result, memo, splitVars, layoutVars>>

\* Line 783.
ColumnsDone ==
  /\ pc = "columns"
  /\ cursor > Len(columns)
  /\ edges' = <<>>
  /\ cursor' = 1
  /\ pc' = "edges"
  /\ UNCHANGED <<sql, normalized, selectPart, fromParts, joinClauses, tables,
                 columns, errors, exception, result, memo, splitVars, layoutVars>>

\* One iteration of lines 785-838.
ProcessJoin ==
  /\ pc = "edges"
  /\ cursor <= Len(joinClauses)
  /\ edges' = edges \o EdgesOfJoin(tables, joinClauses[cursor], cursor - 1)
  /\ cursor' = cursor + 1
  /\ UNCHANGED <<sql, pc, normalized, selectPart, fromParts, joinClauses, tables,
                 columns, errors, exception, result, memo, splitVars, layoutVars>>

\* Lines 840-850.
Return ==
  /\ pc = "edges"
  /\ cursor > Len(joinClauses)
  /\ result' = GraphResult(tables, edges, errors, selectPart, fromParts,
                           joinClauses, columns)
  /\ pc' = "done"
  /\ UNCHANGED <<sql, normalized, selectPart, fromParts, joinClauses, tables,
                 columns, edges, errors, cursor, exception, memo, splitVars, layoutVars>>

\* Lines 851-854.
Catch ==
  /\ pc = "catch"
  /\ errors' = Append(errors, "Parse error: " \o exception[1])
  /\ result' = CaughtResult(tables, errors, exception[1])
  /\ pc' = "done"
  /\ UNCHANGED <<sql, normalized, selectPart, fromParts, joinClauses, tables,
                 columns, edges, cursor, exception, memo, splitVars, layoutVars>>

Next ==
  \/ Call \/ EmptyQuery \/ Extract
  \/ RegisterFrom \/ FromDone \/ RegisterJoin \/ JoinsDone
  \/ AttributeColumn \/ ThrowTypeError \/ ColumnsDone
  \/ ProcessJoin \/ Return \/ Catch

Spec == Init /\ [][Next]_vars

\* A call that has started runs on until it returns: nothing suspends it.
\* This is weak fairness of Next, written out with the enabling condition of
\* Next, which can take a step exactly while the call has not returned.
FairSpec == Spec /\ ([]<>(pc = "done") \/ []<><<Next>>_vars)

(* ------------------------- one call after another --------------------- *)

InitCalls ==
  /\ sql \in CallQueries
  /\ pc = "start"
  /\ normalized = "" /\ selectPart = "" /\ fromParts = <<>> /\ joinClauses = <<>>
  /\ tables = EmptyObject /\ columns = <<>> /\ edges = <<>> /\ errors = <<>>
  /\ cursor = 1 /\ exception = <<>> /\ result = NoResult /\ memo = <<>>
  /\ SplitIdle
  /\ LayoutIdle

Remembered(q) == {n \in 1..Len(memo) : memo[n].sql = q}

\* The caller keeps what the call returned, if it is the first result for
\* this input, and calls again on any input.
CallAgain ==
  /\ pc = "done"
  /\ memo' = IF Remembered(sql) = {}
               THEN Append(memo, [sql |-> sql, result |-> result])
               ELSE memo
  /\ sql' \in CallQueries
  /\ pc' = "start"
  /\ UNCHANGED <<normalized, selectPart, fromParts, joinClauses, tables, columns,
                 edges, errors, cursor, exception, result, splitVars, layoutVars>>

NextCalls == Next \/ CallAgain

SpecCalls == InitCalls /\ [][NextCalls]_vars

(* --------------------- the layout of what was returned ---------------- *)

MaxLayoutCalls == 2

\* Line 1060: the component lays out the tables of the parsed result; a later
\* render on an equal result calls calculateLayout again.
Layout ==
  /\ pc = "done"
  /\ Len(layoutCalls) < MaxLayoutCalls
  /\ layoutCalls' = Append(layoutCalls,
        [tables |-> result.tables,
         after |-> TablesAfterLayout(result.tables, result.edges),
         returned |-> calculateLayout(result.tables, result.edges)])
  /\ UNCHANGED <<graphVars, splitVars>>

NextLayout == Next \/ Layout

SpecLayout == Init /\ [][NextLayout]_vars

(* ======================= properties of the splitter =================== *)

QuoteChars == {"'", "\"", Backtick}

RECURSIVE OpenQuoteAfter(_, _)
\* The quote character that is open after the first n characters of s ("" when
\* none): a quote opens when none is open and closes on its own kind; a quote
\* preceded by a backslash is an escaped one and delimits nothing.
OpenQuoteAfter(s, n) ==
  IF n = 0 THEN ""
  ELSE LET o == OpenQuoteAfter(s, n - 1)
           c == At(s, n)
       IN IF c \in QuoteChars /\ PrevChar(s, n) # "\\"
            THEN (IF o = "" THEN c ELSE IF o = c THEN "" ELSE o)
            ELSE o

\* Position i lies strictly inside a pair of matching quotes.
InsideQuotes(s, i) ==
  /\ OpenQuoteAfter(s, i - 1) # ""
  /\ OpenQuoteAfter(s, i) # ""
  /\ \E k \in (i + 1)..Len(s) : OpenQuoteAfter(s, k) = ""

UnquotedParen(s, j, p) == At(s, j) = p /\ OpenQuoteAfter(s, j) = ""

RECURSIVE BalancedBetween(_, _, _, _)
\* The unquoted parentheses of s[j..k] are balanced, starting at depth d.
BalancedBetween(s, j, k, d) ==
  IF j > k THEN d = 0
  ELSE IF UnquotedParen(s, j, "(") THEN BalancedBetween(s, j + 1, k, d + 1)
  ELSE IF UnquotedParen(s, j, ")") THEN d > 0 /\ BalancedBetween(s, j + 1, k, d - 1)
  ELSE BalancedBetween(s, j + 1, k, d)

\* Position i lies strictly inside a balanced pair of parentheses.
InsideParens(s, i) ==
  \E j \in 1..(i - 1), k \in (i + 1)..Len(s) :
    /\ UnquotedParen(s, j, "(")
    /\ UnquotedParen(s, k, ")")
    /\ BalancedBetween(s, j + 1, k - 1, 0)

\* The loop has just treated the character at idx as a split point.
SplitAt == spc = "scan" /\ idx' = idx + 1 /\ scan'.current = ""

\* C8: splitTopLevel treats a character as a split point only if it is the
\* separator, met at parenthesis depth 0 with no quote flag set; so no split
\* point lies inside a balanced pair of parentheses or inside matching quotes.
SplitterSafety ==
  [][SplitAt =>
       /\ At(str, idx) = separator
       /\ scan'.depth = 0 /\ ~InQuote(scan')
       /\ ~InsideParens(str, idx)
       /\ ~InsideQuotes(str, idx)]_vars

\* A split point was found and a separator inside parentheses was passed over.
SplitterSafetyWitness ==
  /\ spc = "done"
  /\ scan.result # <<>>
  /\ \E i \in 1..Len(str) : At(str, i) = separator /\ InsideParens(str, i)

RECURSIVE FieldsFrom(_, _, _, _)
\* s[i..] cut at every occurrence of sep, cur being the field under way.
FieldsFrom(s, sep, i, cur) ==
  IF i > Len(s) THEN <<cur>>
  ELSE IF At(s, i) = sep THEN <<cur>> \o FieldsFrom(s, sep, i + 1, "")
  ELSE FieldsFrom(s, sep, i + 1, cur \o At(s, i))

\* s without the whitespace at its ends and next to its separators.
ModuloPieceSpace(s, sep) ==
  LET f == FieldsFrom(s, sep, 1, "") IN
  JoinWith([n \in 1..Len(f) |-> Trim(f[n])], sep)

RoundTrips ==
  ModuloPieceSpace(JoinWith(pieces, separator), separator)
    = ModuloPieceSpace(str, separator)

\* The separators of s outside parentheses and quotes.
TopLevelSeparators(s, sep) ==
  {i \in 1..Len(s) : At(s, i) = sep /\ ~InsideParens(s, i) /\ ~InsideQuotes(s, i)}

\* No top-level piece of s is blank: s has no leading, trailing or consecutive
\* top-level separators (a string without top-level separators qualifies).
NoEmptyTopLevelPiece(s, sep) ==
  LET T == TopLevelSeparators(s, sep)
      B == T \cup {0, Len(s) + 1}
  IN T = {} \/ \A a, b \in B :
                 (a < b /\ ~\E c \in T : a < c /\ c < b)
                   => Trim(SubSeq(s, a + 1, b - 1)) # ""

\* C9 as stated: joining the returned pieces with the separator gives back the
\* input up to the whitespace around the pieces, for every input.
RoundTripAlways == spc = "done" => RoundTrips

\* C9 as amended: the same, for inputs without a blank top-level piece.
RoundTripNoEmptyPiece ==
  (spc = "done" /\ NoEmptyTopLevelPiece(str, separator)) => RoundTrips

\* Two pieces came back trimmed from an input without a blank piece.
RoundTripWitness ==
  /\ spc = "done"
  /\ NoEmptyTopLevelPiece(str, separator)
  /\ Len(pieces) = 2
  /\ JoinWith(pieces, separator) # str

(* ==================== properties of buildGraphFromSql ================= *)

\* buildGraphFromSql has returned.
Returned == pc = "done"

ResultTableIds == {result.tables[n].id : n \in 1..Len(result.tables)}

\* C1. No dangling edges: in the returned result the source and the target
\* of every edge are ids of tables of the returned tables array, whatever
\* the qualifiers of the ON conditions are.
NoDanglingEdges ==
  Returned =>
    \A n \in 1..Len(result.edges) :
      /\ result.edges[n].source \in ResultTableIds
      /\ result.edges[n].target \in ResultTableIds

\* The two sides of condition m of join n are qualified by different texts
\* that resolve to one and the same table.
SameTableCondition(n, m) ==
  LET condition == parseOnConditions(joinClauses[n].on)[m] IN
  /\ condition.left # Null /\ condition.left # ""
  /\ condition.right # Null /\ condition.right # ""
  /\ LET leftRef == parseTableRef(condition.left)
         rightRef == parseTableRef(condition.right)
     IN /\ leftRef.table # rightRef.table
        /\ FindTableId(tables, leftRef) # Null
        /\ FindTableId(tables, leftRef) = FindTableId(tables, rightRef)

\* C2. No same-table edges: no edge of the returned result has its source
\* equal to its target, also when the two sides of an ON condition name one
\* table by different spellings.
NoSameTableEdges ==
  Returned =>
    \A n \in 1..Len(result.edges) : result.edges[n].source # result.edges[n].target

\* A result was returned for a query with an ON condition whose sides spell
\* the same table differently.
NoSameTableEdgesWitness ==
  /\ Returned /\ exception = <<>> /\ normalized # ""
  /\ \E n \in 1..Len(joinClauses) :
       \E m \in 1..Len(parseOnConditions(joinClauses[n].on)) : SameTableCondition(n, m)

\* The table expressions of the query in source order: the FROM entries,
\* then the JOIN targets.
Registrations ==
  fromParts \o [n \in 1..Len(joinClauses) |-> joinClauses[n].table]

RegistrationId(n) == TableIdOf(parseTableAndAlias(Registrations[n]))

\* C3. Table dedup: the returned tables array holds no two entries with the
\* same id, whatever FROM registrations, JOIN registrations and column
\* attributions were performed.
NoDuplicateTableIds ==
  Returned =>
    \A i, j \in 1..Len(result.tables) :
      i # j => result.tables[i].id # result.tables[j].id

\* A result was returned for a query in which two table expressions carry
\* aliases that differ as written and are the same once normalised, and the
\* result holds one table of that id.
NoDuplicateTableIdsWitness ==
  /\ Returned /\ exception = <<>> /\ normalized # ""
  /\ \E i, j \in 1..Len(Registrations) :
       /\ i < j
       /\ parseTableAndAlias(Registrations[i]).alias # Null
       /\ parseTableAndAlias(Registrations[j]).alias # Null
       /\ parseTableAndAlias(Registrations[i]).alias
            # parseTableAndAlias(Registrations[j]).alias
       /\ RegistrationId(i) = RegistrationId(j)
       /\ Cardinality({n \in 1..Len(result.tables) :
                         result.tables[n].id = RegistrationId(i)}) = 1

\* C4. First registration wins: a table of the result whose id table
\* expressions of the query derive has the name, alias, isSubquery and raw
\* text of the first of them in source order.
FirstRegistrationWins ==
  Returned /\ exception = <<>> /\ normalized # "" =>
    \A n \in 1..Len(result.tables) :
      \A i \in 1..Len(Registrations) :
        (/\ RegistrationId(i) = result.tables[n].id
         /\ \A h \in 1..(i - 1) : RegistrationId(h) # RegistrationId(i))
        => /\ result.tables[n].name = parseTableAndAlias(Registrations[i]).name
           /\ result.tables[n].alias = parseTableAndAlias(Registrations[i]).alias
           /\ result.tables[n].isSubquery
                = parseTableAndAlias(Registrations[i]).isSubquery
           /\ result.tables[n].raw = Registrations[i]

\* C5. Every call returns a result object, and a call in which an exception
\* was raised returns no table, no edge and exactly one diagnostic.
ReturnsAndCatches ==
  /\ <>Returned
  /\ [](Returned /\ exception # <<>> =>
          /\ result.tables = <<>>
          /\ result.edges = <<>>
          /\ Len(result.errors) = 1)

\* A call in which an exception was raised has returned.
ReturnsAndCatchesWitness ==
  Returned /\ exception # <<>> /\ normalized # ""

RECURSIVE OnlyBlankAndComments(_, _)
\* s[i..] consists of whitespace, -- comments running to the end of their
\* line and closed /* */ comments only.
OnlyBlankAndComments(s, i) ==
  LET c == SkipSpaces(s, i) IN
  IF c > Len(s) THEN TRUE
  ELSE IF HasAt(s, c, "--") THEN OnlyBlankAndComments(s, LineEnd(s, c))
  ELSE IF HasAt(s, c, "/*") /\ BlockEnds(s, c + 2) # {}
    THEN OnlyBlankAndComments(s, SetMin(BlockEnds(s, c + 2)) + 2)
  ELSE FALSE

\* C6. Empty input: for an input of whitespace and comments only the result
\* has no table, no edge and the single diagnostic "Empty SQL query", and no
\* extractor has run.
EmptyInputDiagnosed ==
  Returned /\ OnlyBlankAndComments(sql, 1) =>
    /\ result = EmptyQueryResult
    /\ selectPart = "" /\ fromParts = <<>> /\ joinClauses = <<>> /\ columns = <<>>

\* C7. Determinism: a call returns what the first call on the same input
\* returned, whatever calls on other inputs came in between.
SameInputSameResult ==
  Returned => \A n \in Remembered(sql) : memo[n].result = result

\* A call on an input analysed before has returned tables again, after a
\* call on another input.
SameInputSameResultWitness ==
  /\ Returned /\ Remembered(sql) # {} /\ Len(memo) >= 2
  /\ result.tables # <<>>

RECURSIVE ColumnCount(_)
\* The number of columns the tables of a tables array own.
ColumnCount(tbls) ==
  IF tbls = <<>> THEN 0 ELSE Len(Head(tbls).columns) + ColumnCount(Tail(tbls))

\* C10. Column conservation: when the result carries no diagnostic, every
\* descriptor of the SELECT list is owned by a table of the result and the
\* tables own as many columns as there are descriptors.
ColumnConservation ==
  Returned /\ result.errors = <<>> =>
    /\ ColumnCount(result.tables) = Len(columns)
    /\ \A i \in 1..Len(columns) :
         \E n \in 1..Len(result.tables) :
           \E m \in 1..Len(result.tables[n].columns) :
             result.tables[n].columns[m] = ColumnEntry(columns[i])

(* ======================= the documented scenarios ===================== *)

ScenarioAText ==
  "SELECT u.name, o.total FROM users u JOIN orders o ON u.id = o.user_id;"

\* C11. Scenario A: the analysis of the simple example has exactly the two
\* tables u and o and exactly one edge, from u to o, of type join and with
\* the condition u.id = o.user_id.
ScenarioA ==
  Returned /\ normalized = ScenarioAText =>
    /\ Len(result.tables) = 2
    /\ ResultTableIds = {"u", "o"}
    /\ Len(result.edges) = 1
    /\ result.edges[1].source = "u"
    /\ result.edges[1].target = "o"
    /\ result.edges[1].joinType = "join"
    /\ result.edges[1].condition = "u.id = o.user_id"

\* The example as the page loads it, on three lines, has been analysed.
ScenarioAWitness ==
  /\ Returned /\ normalized = ScenarioAText /\ sql # ScenarioAText
  /\ result.errors = <<>> /\ result.edges # <<>>

\* The names of the columns of a table.
ColumnNames(table) == [m \in 1..Len(table.columns) |-> table.columns[m].name]

\* The tables of the result that have the id tableId.
ResultTablesWithId(tableId) ==
  {n \in 1..Len(result.tables) : result.tables[n].id = tableId}

\* C12. Scenario B: the analysis of SELECT * FROM a; has exactly one table,
\* of id a, holding exactly one column, of name *, and no edge.
ScenarioB ==
  Returned /\ sql = "SELECT * FROM a;" =>
    /\ Len(result.tables) = 1
    /\ result.tables[1].id = "a"
    /\ ColumnNames(result.tables[1]) = <<"*">>
    /\ result.edges = <<>>

\* C13. Scenario C: the analysis has a table a, a table b, an orphan table x
\* holding the column y, and exactly one edge, from a to b, of type left join.
ScenarioC ==
  Returned /\ sql = "SELECT x.y FROM a LEFT JOIN b ON a.id = b.a_id WHERE 1=1;" =>
    /\ ResultTablesWithId("a") # {}
    /\ ResultTablesWithId("b") # {}
    /\ \E n \in ResultTablesWithId("x") :
         /\ "isOrphan" \in DOMAIN result.tables[n]
         /\ ColumnNames(result.tables[n]) = <<"y">>
    /\ Len(result.edges) = 1
    /\ result.edges[1].source = "a"
    /\ result.edges[1].target = "b"
    /\ result.edges[1].joinType = "left join"

\* C14. Scenario D: the analysis of the malformed input SELECT FROM raises
\* no exception and returns at most one table and at least one diagnostic.
ScenarioD ==
  Returned /\ sql = "SELECT FROM" =>
    /\ exception = <<>>
    /\ Len(result.tables) <= 1
    /\ result.errors # <<>>

\* sub occurs in s.
Contains(s, sub) == \E i \in 1..Len(s) : HasAt(s, i, sub)

\* C15. Scenario E: the analysis of the nested subquery has exactly one
\* table, of id m, marked as a subquery, its name containing the subquery
\* text and the column id attached to it; no orphan table is created.
ScenarioE ==
  Returned /\ sql = "SELECT m.id FROM (SELECT id FROM t) m;" =>
    /\ Len(result.tables) = 1
    /\ result.tables[1].id = "m"
    /\ result.tables[1].isSubquery
    /\ Contains(result.tables[1].name, "SELECT id FROM t")
    /\ ColumnNames(result.tables[1]) = <<"id">>
    /\ "isOrphan" \notin DOMAIN result.tables[1]

(* ======================== properties of the stages ==================== *)

\* Neither the select ... from pattern nor the from ... pattern matches in
\* the normalized input.
NoSelectNoFrom ==
  /\ SelectStarts(normalized, ToLowerCase(normalized)) = {}
  /\ FromStarts(normalized, ToLowerCase(normalized)) = {}

\* C16. Missing SELECT/FROM: for a non-empty normalized input without a
\* select ... from and without a from ... clause the select part is empty,
\* there are zero columns and the result has no table and no edge.
MissingSelectFromYieldsNothing ==
  Returned /\ normalized # "" /\ NoSelectNoFrom =>
    /\ selectPart = ""
    /\ columns = <<>>
    /\ result.tables = <<>>
    /\ result.edges = <<>>

\* C17. FROM boundaries: whichever of the ten boundaries follows the FROM
\* clause t1 a1, t2 a2 (a ; right after the last table and the end of the
\* input included), extractFromTables returns the two pieces t1 a1 and t2 a2.
FromClauseEndsAtEveryBoundary ==
  Returned /\ sql \in BoundaryQueries => fromParts = <<"t1 a1", "t2 a2">>

RECURSIVE JoinStartsFrom(_, _, _)
\* The positions at which the matches of joinPattern start, from lastIndex on.
JoinStartsFrom(s, low, lastIndex) ==
  LET P == {p \in lastIndex..Len(s) : JoinMatchAt(s, low, p).ok} IN
  IF P = {} THEN <<>>
  ELSE <<SetMin(P)>> \o JoinStartsFrom(s, low, JoinMatchAt(s, low, SetMin(P)).end)

\* The join keywords written in low that end where the keyword type written
\* at position p ends, and are longer than it.
MoreSpecificWrittenAt(s, low, p, type) ==
  {n \in 1..Len(joinTypes) :
     /\ Len(joinTypes[n]) > Len(type)
     /\ HasAt(low, p + Len(type) - Len(joinTypes[n]), joinTypes[n])
     /\ WordBoundary(s, p + Len(type) - Len(joinTypes[n]))}

\* C18. Join-type specificity: every join extractJoinClauses returns carries
\* the most specific join keyword written at its place: no longer join
\* keyword ends where the returned one ends.
JoinTypeMostSpecific ==
  Returned /\ normalized # "" =>
    LET low == ToLowerCase(normalized)
        starts == JoinStartsFrom(normalized, low, 1)
    IN /\ Len(starts) = Len(joinClauses)
       /\ \A n \in 1..Len(starts) :
            MoreSpecificWrittenAt(normalized, low, starts[n], joinClauses[n].type) = {}

\* The id of the table of the result the qualifier q resolves to (Null when
\* none): the table of that id, else the first table whose alias or last
\* name segment is q.
ResolvedId(q) ==
  IF ResultTablesWithId(q) # {} THEN q
  ELSE LET M == {n \in 1..Len(result.tables) :
                   MatchesAliasOrName(result.tables[n], q)}
       IN IF M = {} THEN Null ELSE result.tables[SetMin(M)].id

\* The condition matches the comparison pattern, both its sides carry a
\* qualifier, and the two qualifiers resolve to different tables.
OughtToYieldEdge(condition) ==
  /\ condition.left # Null /\ condition.left # ""
  /\ condition.right # Null /\ condition.right # ""
  /\ LET lq == parseTableRef(condition.left).table
         rq == parseTableRef(condition.right).table
     IN /\ lq # Null /\ lq # ""
        /\ rq # Null /\ rq # ""
        /\ ResolvedId(lq) # Null
        /\ ResolvedId(rq) # Null
        /\ ResolvedId(lq) # ResolvedId(rq)

ResultEdgeIds == {result.edges[i].id : i \in 1..Len(result.edges)}

\* C19. Edge emission: condition m of join n yields an edge exactly if it
\* matches the comparison pattern with both sides qualified and resolving to
\* different tables of the table map; no diagnostic is added for a skipped
\* condition and the join clauses stay available in raw.joins.
EdgeExactlyWhenResolved ==
  Returned /\ exception = <<>> /\ normalized # "" =>
    /\ \A n \in 1..Len(joinClauses) :
         \A m \in 1..Len(parseOnConditions(joinClauses[n].on)) :
           ("edge_" \o ToString(n - 1) \o "_" \o ToString(m - 1) \in ResultEdgeIds)
             <=> OughtToYieldEdge(parseOnConditions(joinClauses[n].on)[m])
    /\ result.errors = <<>>
    /\ result.raw.joins = joinClauses

(* ------------------------ properties of the layout -------------------- *)

\* The fields of table are all in entry, with the same values.
CarriesFieldsOf(entry, table) ==
  /\ DOMAIN entry = DOMAIN table \cup {"x", "y"}
  /\ \A f \in DOMAIN table : entry[f] = table[f]

\* One call of calculateLayout behaves as a pure layout: nothing for no
\* tables, else one entry per table in the same order with the table's fields
\* and x and y, a single table at (430, 230), and the argument left as it was.
PureLayoutCall(call) ==
  /\ call.tables = <<>> => call.returned = <<>>
  /\ Len(call.returned) = Len(call.tables)
  /\ \A i \in 1..Len(call.tables) : CarriesFieldsOf(call.returned[i], call.tables[i])
  /\ Len(call.tables) = 1 =>
       /\ call.returned[1].x = [number |-> 430]
       /\ call.returned[1].y = [number |-> 230]
  /\ call.after = call.tables

QuoteFlags(st) == <<st.inSingleQuote, st.inDoubleQuote, st.inBacktick>>

FlagsSet(st) == {n \in 1..3 : QuoteFlags(st)[n]}

\* What holds of the locals of the scan at any moment.
ScanState == scan.depth >= 0 /\ Cardinality(FlagsSet(scan)) <= 1

\* What holds of one iteration of the loop, on the character at idx.
ScanStep ==
  (spc = "scan" /\ idx' = idx + 1) =>
    LET char == At(str, idx) IN
    /\ (char = ")" /\ scan.depth = 0) => scan'.depth = 0
    /\ (char \in {"(", ")"} /\ InQuote(scan)) => scan'.depth = scan.depth
    /\ (char \in QuoteChars /\ PrevChar(str, idx) = "\\")
         => QuoteFlags(scan') = QuoteFlags(scan)

\* C21. At every step of splitTopLevel's scan the parenthesis depth is >= 0
\* (a closing parenthesis at depth 0 leaves it at 0), at most one of the three
\* quote flags is set, a parenthesis met while a quote flag is set does not
\* change the depth, and a quote character immediately preceded by a backslash
\* toggles no flag.
ScanInvariant == []ScanState /\ [][ScanStep]_vars

\* The scan has passed a closing parenthesis at depth 0 and then a quote
\* character preceded by a backslash.
ScanInvariantWitness ==
  /\ spc = "scan" /\ idx > 3
  /\ At(str, 1) = ")" /\ At(str, 2) = "\\" /\ At(str, 3) \in QuoteChars
  /\ scan.depth = 0 /\ ~InQuote(scan)

\* The position of the last closing parenthesis of s (0 when there is none).
LastClose(s) == SetMax({0} \cup {i \in 1..Len(s) : At(s, i) = ")"})

\* What follows the last closing parenthesis of s.
AfterClose(s) == Trim(From(s, LastClose(s) + 1))

\* s is an identifier, or AS and an identifier.
OptionalAsAlias(s) ==
  \/ s # "" /\ AllWord(s, 1)
  \/ /\ HasAt(ToLowerCase(s), 1, "as") /\ SkipSpaces(s, 3) > 3
     /\ SkipSpaces(s, 3) <= Len(s) /\ AllWord(s, SkipSpaces(s, 3))

\* The identifier at the end of s.
TrailingIdentifier(s) ==
  From(s, SetMin({i \in 1..Len(s) : AllWord(s, i)}))

\* expr is ( body ), ( body ) alias or ( body ) AS alias.
SubqueryForm(expr) ==
  /\ HasAt(expr, 1, "(") /\ LastClose(expr) > 1
  /\ AfterClose(expr) = "" \/ OptionalAsAlias(AfterClose(expr))

\* What the table expression expr, of that form, ought to be parsed to.
SubqueryParse(expr) ==
  [name |-> "(" \o Trim(SubSeq(expr, 2, LastClose(expr) - 1)) \o ")",
   alias |-> IF AfterClose(expr) = "" THEN Null
             ELSE TrailingIdentifier(AfterClose(expr)),
   isSubquery |-> TRUE]

\* The table expressions the call has registered so far.
RegisteredExpressions ==
  {fromParts[n] : n \in 1..(IF pc = "from" THEN cursor - 1 ELSE Len(fromParts))}
    \cup {joinClauses[n].table :
            n \in 1..(IF pc = "from" THEN 0
                      ELSE IF pc = "join" THEN cursor - 1
                      ELSE Len(joinClauses))}

\* C22. For every table expression of the form ( body ) alias or
\* ( body ) AS alias, parseTableAndAlias returns isSubquery = true, the
\* parenthesized body as name and the trailing identifier as alias; for
\* ( body ) alone it returns isSubquery = true and alias = null.
SubqueryResolution ==
  \A expr \in RegisteredExpressions :
    SubqueryForm(expr) => parseTableAndAlias(expr) = SubqueryParse(expr)

\* The identifier a parsed table expression is known by: its alias, or the
\* last segment of its name.
KnownBy(parsed) ==
  IF parsed.alias # Null /\ parsed.alias # "" THEN parsed.alias
  ELSE LastSegment(parsed.name)

\* The entries of the returned tables array made for the table expression expr.
ResultTablesFor(expr) ==
  {n \in 1..Len(result.tables) :
     /\ result.tables[n].raw = expr
     /\ result.tables[n].name = parseTableAndAlias(expr).name
     /\ result.tables[n].alias = parseTableAndAlias(expr).alias}

\* q and the identifier differ in letter case at most.
SameButCase(q, identifier) ==
  q # Null /\ q # "" /\ ToLowerCase(q) = ToLowerCase(identifier)

\* The qualifiers of the sides of the ON conditions of the query.
OnQualifiers ==
  UNION {LET conditions == parseOnConditions(joinClauses[i].on) IN
         UNION {{SubSeq(side, 1, SetMin(Dots(side)) - 1) :
                   side \in {s \in {conditions[j].left, conditions[j].right} :
                               s # Null /\ Dots(s) # {}}} :
                j \in 1..Len(conditions)} :
         i \in 1..Len(joinClauses)}

\* The column col is in the columns of the table for expr, and no orphan was
\* made for its qualifier.
AttachedTo(expr, col) ==
  /\ \E n \in ResultTablesFor(expr) :
       \E m \in 1..Len(result.tables[n].columns) :
         result.tables[n].columns[m] = ColumnEntry(col)
  /\ \A n \in 1..Len(result.tables) :
       "isOrphan" \in DOMAIN result.tables[n]
         => result.tables[n].id # normalizeIdentifier(col.table)

\* The ON qualifier q is resolved to the table for expr.
ResolvesTo(expr, q) ==
  LET found == FindTableId(tables, [table |-> normalizeIdentifier(q), column |-> ""])
  IN found # Null /\ ResultTablesWithId(found) \cap ResultTablesFor(expr) # {}

\* C23. The id of every table registered from a FROM entry or a JOIN target is
\* its alias, without quote characters and lowercased, when it has one, and
\* otherwise the last dot-separated segment of its name, normalized likewise;
\* hence a SELECT or ON qualifier that differs from that alias (or, without an
\* alias, from that segment) in letter case only resolves to that table and
\* creates no orphan.
IdDerivation ==
  (Returned /\ result.errors = <<>>) =>
    \A expr \in RegisteredExpressions :
      LET known == KnownBy(parseTableAndAlias(expr)) IN
      /\ \A n \in ResultTablesFor(expr) :
           result.tables[n].id = ToLowerCase(RemoveQuotes(known))
      /\ \A n \in 1..Len(columns) :
           SameButCase(columns[n].table, known) => AttachedTo(expr, columns[n])
      /\ \A q \in OnQualifiers :
           SameButCase(q, known) => ResolvesTo(expr, q)

\* The descriptor has no table qualifier.
Unqualified(col) == col.table = Null \/ col.table = ""

\* C24. Every SELECT descriptor without a table qualifier (a bare column, a
\* function expression, a bare *, the * descriptor of an empty select text) is
\* appended, in SELECT-list order, to one table of id __unspecified__ with
\* isVirtual = true; that table is created on the first such descriptor, at
\* most one exists in a result, and none exists when every descriptor is
\* qualified.
VirtualBucket ==
  /\ pc = "columns" =>
       (OwnIndex(tables, "__unspecified__") # {}
          <=> \E n \in 1..(cursor - 1) : Unqualified(columns[n]))
  /\ (Returned /\ result.errors = <<>>) =>
       LET unqualified == SelectSeq(columns, Unqualified)
           bucket == ResultTablesWithId("__unspecified__")
       IN IF unqualified = <<>> THEN bucket = {}
          ELSE /\ Cardinality(bucket) = 1
               /\ \A n \in bucket :
                    /\ "isVirtual" \in DOMAIN result.tables[n]
                    /\ result.tables[n].isVirtual
                    /\ result.tables[n].columns
                         = [m \in 1..Len(unqualified) |-> ColumnEntry(unqualified[m])]

RECURSIVE OccurInOrder(_, _)
\* The texts of the join clauses n, n + 1, ... occur in the normalized query
\* one after the other, the first of them at position from or later.
OccurInOrder(n, from) ==
  IF n > Len(joinClauses) THEN TRUE
  ELSE LET P == {p \in from..Len(normalized) :
                   HasAt(normalized, p, joinClauses[n].raw)}
       IN P # {} /\ OccurInOrder(n + 1, SetMin(P) + Len(joinClauses[n].raw))

\* The places <<i, j>> (counted from 0) of the conditions that edge may have
\* been emitted for, going by its id, its condition text and its join type.
EdgePlaces(edge) ==
  {place \in UNION {{<<i, j>> : j \in 0..(Len(parseOnConditions(joinClauses[i + 1].on)) - 1)} :
                      i \in 0..(Len(joinClauses) - 1)} :
     /\ edge.id = "edge_" \o ToString(place[1]) \o "_" \o ToString(place[2])
     /\ edge.condition = parseOnConditions(joinClauses[place[1] + 1].on)[place[2] + 1].raw
     /\ edge.joinType = joinClauses[place[1] + 1].type}

\* Place p comes before place q: an earlier join, or the same join and an
\* earlier condition.
PlaceBefore(p, q) == p[1] < q[1] \/ (p[1] = q[1] /\ p[2] < q[2])

\* C25. extractJoinClauses returns the join clauses in the order in which they
\* occur in the query text; the edges are ordered by join position and then by
\* the position of the condition in the ON clause; the edge of condition j of
\* join i has the id edge_i_j, and so the edge ids are pairwise distinct.
EdgeOrdering ==
  /\ pc \notin {"start", "normalized"} => OccurInOrder(1, 1)
  /\ \A n \in 1..Len(edges) :
       /\ Cardinality(EdgePlaces(edges[n])) = 1
       /\ \A m \in 1..(n - 1) :
            /\ edges[m].id # edges[n].id
            /\ \A p \in EdgePlaces(edges[m]), q \in EdgePlaces(edges[n]) :
                 PlaceBefore(p, q)
  /\ Returned /\ result.errors = <<>> => result.edges = edges

\* Three edges were returned: two of one join, whose conditions are not next
\* to each other in the ON clause, and one of the join after it.
EdgeOrderingWitness ==
  /\ Returned
  /\ Len(joinClauses) = 2
  /\ [n \in 1..Len(result.edges) |-> result.edges[n].id]
       = <<"edge_0_0", "edge_0_2", "edge_1_0">>

\* The qualifier of one side of a condition: the text before its first dot.
QualifierOf(side) == SubSeq(side, 1, SetMin(Dots(side)) - 1)

\* The text after the first dot of one side of a condition.
AfterFirstDot(side) == From(side, SetMin(Dots(side)) + 1)

\* The edge is the one of the condition at place, with the payload that
\* condition and its join clause give it.
EdgeMirrors(edge, place) ==
  LET join == joinClauses[place[1] + 1]
      condition == parseOnConditions(join.on)[place[2] + 1]
  IN /\ condition.left # Null /\ Dots(condition.left) # {}
     /\ condition.right # Null /\ Dots(condition.right) # {}
     /\ edge.source = ResolvedId(normalizeIdentifier(QualifierOf(condition.left)))
     /\ edge.target = ResolvedId(normalizeIdentifier(QualifierOf(condition.right)))
     /\ edge.joinType = join.type
     /\ edge.sourceColumn = AfterFirstDot(condition.left)
     /\ edge.targetColumn = AfterFirstDot(condition.right)
     /\ edge.operator = condition.operator
     /\ ToLowerCase(edge.operator) \in
          {ComparisonOperators[n] : n \in DOMAIN ComparisonOperators}
     /\ edge.condition = condition.raw

\* C26. Every emitted edge has as source the table resolved from the left-hand
\* side of its condition and as target the table resolved from the right-hand
\* side, whichever of them is the JOIN target; its joinType is the type of the
\* join clause of the condition, its sourceColumn and targetColumn are the text
\* after the first dot of the left and of the right side, its operator is the
\* comparison operator that was matched and its condition is the text of the
\* atomic condition.
EdgeMirrorsCondition ==
  Returned =>
    \A n \in 1..Len(result.edges) :
      \E place \in EdgePlaces(result.edges[n]) : EdgeMirrors(result.edges[n], place)

\* C27. Diagnostics and partial results never coexist: a result whose errors
\* list is not empty has no tables and no edges; the list is not empty only
\* when the normalized input is empty or an exception was caught, and it never
\* has more than one entry; so missing clauses, orphan columns and skipped ON
\* conditions add no diagnostic.
DiagnosticsExcludeResults ==
  Returned =>
    /\ result.errors # <<>> => result.tables = <<>> /\ result.edges = <<>>
    /\ result.errors # <<>> => normalized = "" \/ exception # <<>>
    /\ Len(result.errors) <= 1

\* An exception was caught after tables had been registered, and the result
\* has the diagnostic and nothing else.
DiagnosticsExcludeResultsWitness ==
  /\ Returned
  /\ exception # <<>>
  /\ tables.own # <<>>
  /\ Len(result.errors) = 1

\* The queries of the form SELECT ... FROM users u <join-type> JOIN ... ON ...
\* WHERE ...
FromJoinQueries ==
  {"SELECT " \o s \o " FROM users u" \o j \o " WHERE 1=1;" :
     s \in SelectLists, j \in JoinChains \ {""}} \cup {DefaultQuery}

\* C28. A FROM table that is followed by JOIN clauses is registered on its
\* own: for a query SELECT ... FROM t a <join-type> JOIN t2 a2 ON ... WHERE ...
\* extractFromTables returns the single entry t a, and the result has a table
\* of id a and name t, to which the columns qualified a. are attached and to
\* which the ON conditions qualified a. resolve.
FromTableRegisteredAlone ==
  (Returned /\ sql \in FromJoinQueries /\ result.errors = <<>>) =>
    /\ fromParts = <<"users u">>
    /\ \E n \in ResultTablesWithId("u") :
         /\ result.tables[n].name = "users"
         /\ \A m \in 1..Len(columns) :
              (columns[m].table # Null /\ normalizeIdentifier(columns[m].table) = "u")
                => \E c \in 1..Len(result.tables[n].columns) :
                     result.tables[n].columns[c] = ColumnEntry(columns[m])
    /\ FindTableId(tables, [table |-> "u", column |-> "id"]) = "u"

\* The ids of the orphan tables of the result.
OrphanIds ==
  {result.tables[n].id :
     n \in {m \in 1..Len(result.tables) : "isOrphan" \in DOMAIN result.tables[m]}}

\* The orphan and virtual tables that the tables object holds.
UnregisteredOwn ==
  {n \in 1..Len(tables.own) :
     "isOrphan" \in DOMAIN tables.own[n] \/ "isVirtual" \in DOMAIN tables.own[n]}

\* The stages come one after the other: tables are made for columns once the
\* registration of the FROM and JOIN tables is over, and edges are made once
\* the attribution of the columns is over.
StagesInOrder ==
  /\ pc \in {"start", "normalized", "from", "join"} => UnregisteredOwn = {}
  /\ pc \in {"start", "normalized", "from", "join", "columns"} => edges = <<>>

\* The condition at place <<i, j>> has an orphan on one side and a different
\* table of the result on the other.
JoinsAnOrphan(i, j) ==
  LET condition == parseOnConditions(joinClauses[i + 1].on)[j + 1] IN
  /\ condition.left # Null /\ Dots(condition.left) # {}
  /\ condition.right # Null /\ Dots(condition.right) # {}
  /\ LET lq == normalizeIdentifier(QualifierOf(condition.left))
         rq == normalizeIdentifier(QualifierOf(condition.right))
     IN /\ lq # "" /\ rq # ""
        /\ ResolvedId(lq) # Null /\ ResolvedId(rq) # Null
        /\ ResolvedId(lq) # ResolvedId(rq)
        /\ lq \in OrphanIds \/ rq \in OrphanIds

\* The identifiers that name the target of a join clause: its alias and the
\* last segment of its name.
NamesOfJoinTarget(join) ==
  LET parsed == parseTableAndAlias(join.table) IN
  {normalizeIdentifier(LastSegment(parsed.name))}
    \cup (IF parsed.alias # Null /\ parsed.alias # ""
            THEN {normalizeIdentifier(parsed.alias)} ELSE {})

\* C29. Column attribution, which may add orphan tables and the virtual table,
\* is over before any ON condition is resolved, so an ON qualifier that matches
\* no FROM or JOIN table but is the qualifier of a SELECT item resolves to the
\* orphan table and an edge with an orphan endpoint is emitted; registration of
\* the FROM and JOIN tables is over before the first column is attributed, so a
\* column qualifier that names a JOIN table never creates an orphan.
StageOrdering ==
  /\ StagesInOrder
  /\ (Returned /\ result.errors = <<>>) =>
       /\ \A i \in 0..(Len(joinClauses) - 1) :
            \A j \in 0..(Len(parseOnConditions(joinClauses[i + 1].on)) - 1) :
              JoinsAnOrphan(i, j) =>
                \E n \in 1..Len(result.edges) :
                  /\ <<i, j>> \in EdgePlaces(result.edges[n])
                  /\ {result.edges[n].source, result.edges[n].target} \cap OrphanIds # {}
       /\ \A i \in 1..Len(joinClauses) :
            NamesOfJoinTarget(joinClauses[i]) \cap OrphanIds = {}

RECURSIVE FirstOccurrences(_, _)
\* The members of ids that are not in seen, each at its first occurrence.
FirstOccurrences(ids, seen) ==
  IF ids = <<>> THEN <<>>
  ELSE IF Head(ids) \in seen THEN FirstOccurrences(Tail(ids), seen)
  ELSE <<Head(ids)>> \o FirstOccurrences(Tail(ids), seen \cup {Head(ids)})

\* The ids in the order in which the call met them: the FROM entries, the JOIN
\* targets, then the tables that the SELECT items go to.
IdsAsMet ==
  [n \in 1..Len(Registrations) |-> RegistrationId(n)]
    \o [m \in 1..Len(columns) |->
          IF Unqualified(columns[m]) THEN "__unspecified__"
          ELSE normalizeIdentifier(columns[m].table)]

\* The ids of the tables of the result in the order of their first
\* registration.
RegistrationOrder ==
  SelectSeq(FirstOccurrences(IdsAsMet, {}), LAMBDA id : id \in ResultTableIds)

IdsOf(tbls) == [n \in 1..Len(tbls) |-> tbls[n].id]

\* C30. The tables array of the result lists the tables in the order of their
\* first registration (the FROM entries in list order, then the JOIN targets in
\* source order, then the orphan and virtual tables in the order of the SELECT
\* items that created them) whatever the ids are, ids made of digits only
\* included; so the layout position of a table depends on that order only.
TablesInRegistrationOrder ==
  (Returned /\ result.errors = <<>>) =>
    /\ IdsOf(result.tables) = RegistrationOrder
    /\ \A n \in 1..Len(layoutCalls) :
         IdsOf(layoutCalls[n].returned) = RegistrationOrder

====
